---- MODULE Spec2Model ----
(***************************************************************************)
(* Package safefile: safe "atomic" saving of files.  A temporary file is   *)
(* created next to the destination, written to, and renamed over the       *)
(* destination.  Two revisions of the package are modelled:                *)
(*   - the Commit revision (Create / Write / Commit / Close / WriteFile),  *)
(*   - the CloseEx revision (Create / Write / CloseEx / Close / WriteFile).*)
(* The filesystem is a map from path names to inodes and a map from inodes *)
(* to contents; an open os.File keeps its inode, its offset and the name   *)
(* it was opened with.                                                     *)
(***************************************************************************)
EXTENDS Integers, Sequences, FiniteSets, TLC

VARIABLES
    fs,        \* directory entries: resolved path -> inode
    data,      \* inode -> content (sequence of bytes)
    file,      \* handle -> the *File a caller holds (or none yet)
    ret,       \* handle -> what the last public call on it returned
    ops,       \* handle -> the os primitives the last public call invoked
    written,   \* handle -> all bytes its Write calls reported written, in order
    before,    \* handle -> what the destination read as when Create was called
    hist       \* handle -> facts about the handle's past calls

vars == <<fs, data, file, ret, ops, written, before, hist>>

----------------------------------------------------------------------------
(* Bounds of the model. *)

\* time.Now().UnixNano() reads a value in 0..MaxTime
MaxTime == 1
\* a handle is asked to write at most MaxFileLen bytes in total
MaxFileLen == 2
\* iterations of Create's loop that one call may take
MaxAttempts == 2

Handles == {1, 2}
Bytes == {1, 2}
\* content of a destination that exists before Create
OldData == <<0, 0>>

Separator == "/"

\* file names callers pass: "", "/", "a", "a/", "//a"
Filenames ==
    { <<>>, <<"/">>, <<"a">>, <<"a", "/">>, <<"/", "/", "a">> }

\* files that may exist before any Create: "a" and "/a"
InitialPaths == { <<"a">>, <<"/", "a">> }

InitialInode(p) == IF p = <<"a">> THEN 11 ELSE 12

----------------------------------------------------------------------------
(* path/filepath *)

RECURSIVE Squeeze(_)
Squeeze(p) ==
    IF Len(p) < 2 THEN p
    ELSE IF p[1] = Separator /\ p[2] = Separator THEN Squeeze(Tail(p))
    ELSE <<p[1]>> \o Squeeze(Tail(p))

\* filepath.Clean on names without "." and ".." elements
Clean(p) ==
    IF p = <<>> THEN <<".">>
    ELSE LET q == Squeeze(p) IN
         IF Len(q) > 1 /\ q[Len(q)] = Separator
         THEN SubSeq(q, 1, Len(q) - 1)
         ELSE q

\* index of the last separator of p, 0 when there is none
LastSep(p) ==
    LET S == { i \in 1..Len(p) : p[i] = Separator } IN
    IF S = {} THEN 0 ELSE CHOOSE i \in S : \A j \in S : j <= i

\* filepath.Dir
Dir(p) ==
    IF LastSep(p) = 0 THEN <<".">> ELSE Clean(SubSeq(p, 1, LastSep(p)))

\* filepath.Join(dir, elem) for a cleaned dir and a single element
Join(dir, elem) ==
    IF dir = <<".">> THEN <<elem>>
    ELSE IF dir = <<Separator>> THEN <<Separator, elem>>
    ELSE dir \o <<Separator, elem>>

HexDigits ==
    <<"0", "1", "2", "3", "4", "5", "6", "7",
      "8", "9", "a", "b", "c", "d", "e", "f">>

RECURSIVE Hex(_)
\* fmt "%x"
Hex(n) ==
    IF n < 16 THEN HexDigits[n + 1]
    ELSE Hex(n \div 16) \o HexDigits[(n % 16) + 1]

RECURSIVE Dec(_)
\* fmt "%d" of a natural number
Dec(n) ==
    IF n < 10 THEN HexDigits[n + 1]
    ELSE Dec(n \div 10) \o HexDigits[(n % 10) + 1]

\* fmt.Sprintf("%x-%d.tmp", now, counter)
TempBase(now, counter) == Hex(now) \o "-" \o Dec(counter) \o ".tmp"

\* a makeTempName that proposes the destination itself: writing in place
makeTempNameInPlace(origname, now, counter) ==
    LET c == Clean(origname) IN
    IF Len(c) = 0 \/ c[Len(c)] = Separator
    THEN [tempname |-> <<>>, err |-> "ErrInvalid"]
    ELSE [tempname |-> c, err |-> "nil"]

makeTempName(origname, now, counter) ==
    LET c == Clean(origname) IN
    IF Len(c) = 0 \/ c[Len(c)] = Separator
    THEN [tempname |-> <<>>, err |-> "ErrInvalid"]
    ELSE [tempname |-> Join(Dir(c), TempBase(now, counter)), err |-> "nil"]

----------------------------------------------------------------------------
(* The filesystem as the os package shows it.  A world w is                *)
(* [fs |-> directory entries, data |-> inode contents].                    *)

\* a name the kernel can resolve to a regular file's directory entry
Resolvable(p) == p # <<>> /\ p[Len(p)] # Separator

Exists(w, p) == Resolvable(p) /\ Clean(p) \in DOMAIN w.fs

\* what a reader of path p sees
ReadFile(w, p) ==
    IF Exists(w, p)
    THEN [exists |-> TRUE, content |-> w.data[w.fs[Clean(p)]]]
    ELSE [exists |-> FALSE, content |-> <<>>]

Link(dir, p, ino) ==
    [q \in (DOMAIN dir) \cup {p} |-> IF q = p THEN ino ELSE dir[q]]

Unlink(dir, p) == [q \in (DOMAIN dir) \ {p} |-> dir[q]]

\* bytes b written at offset off of content c
WriteAt(c, off, b) ==
    [i \in 1..(IF Len(c) > off + Len(b) THEN Len(c) ELSE off + Len(b)) |->
        IF i > off /\ i <= off + Len(b) THEN b[i - off]
        ELSE IF i <= Len(c) THEN c[i] ELSE 0]

IsExist(err) == err = "EEXIST"

\* os.OpenFile(name, flags, perm) creating inode ino when it creates
OpenFile(w, name, flags, ino, fault) ==
    IF fault # "nil"
    THEN [w |-> w, err |-> fault, ino |-> 0, existed |-> FALSE]
    ELSE IF name \in DOMAIN w.fs
    THEN IF "O_CREATE" \in flags /\ "O_EXCL" \in flags
         THEN [w |-> w, err |-> "EEXIST", ino |-> 0, existed |-> TRUE]
         ELSE [w |-> w, err |-> "nil", ino |-> w.fs[name], existed |-> TRUE]
    ELSE IF "O_CREATE" \in flags
    THEN [w |-> [fs |-> Link(w.fs, name, ino),
                 data |-> Link(w.data, ino, <<>>)],
          err |-> "nil", ino |-> ino, existed |-> FALSE]
    ELSE [w |-> w, err |-> "ENOENT", ino |-> 0, existed |-> FALSE]

\* (*os.File).Write: n bytes of b land at the offset; failed reports an error
FileWrite(w, f, b, n, failed) ==
    IF ~f.open
    THEN [w |-> w, f |-> f, n |-> 0, err |-> "ErrClosed"]
    ELSE [w |-> [w EXCEPT !.data[f.ino] = WriteAt(@, f.off, SubSeq(b, 1, n))],
          f |-> [f EXCEPT !.off = @ + n],
          n |-> n,
          err |-> IF failed THEN "EIO" ELSE "nil"]

\* (*os.File).Sync
FileSync(f, ok) ==
    IF ~f.open THEN "ErrClosed" ELSE IF ok THEN "nil" ELSE "EIO"

\* (*os.File).Close: the descriptor is released even when close reports an error
FileClose(f, ok) ==
    IF ~f.open THEN [f |-> f, err |-> "ErrClosed"]
    ELSE [f |-> [f EXCEPT !.open = FALSE], err |-> IF ok THEN "nil" ELSE "EIO"]

\* os.Rename(oldpath, newpath)
Rename(w, oldpath, newpath, ok) ==
    IF ~ok THEN [w |-> w, err |-> "EIO"]
    ELSE IF ~Exists(w, oldpath) THEN [w |-> w, err |-> "ENOENT"]
    ELSE IF ~Resolvable(newpath) THEN [w |-> w, err |-> "ENOTDIR"]
    ELSE [w |-> [w EXCEPT !.fs = Link(Unlink(w.fs, Clean(oldpath)),
                                      Clean(newpath), w.fs[Clean(oldpath)])],
          err |-> "nil"]

\* os.Remove(name)
Remove(w, name, ok) ==
    IF ~ok THEN [w |-> w, err |-> "EIO"]
    ELSE IF ~Exists(w, name) THEN [w |-> w, err |-> "ENOENT"]
    ELSE [w |-> [w EXCEPT !.fs = Unlink(w.fs, Clean(name))], err |-> "nil"]

----------------------------------------------------------------------------
(* The Commit revision. *)

\* no *File yet
NoFile ==
    [state |-> "none", name |-> <<>>, origName |-> <<>>, open |-> FALSE,
     ino |-> 0, off |-> 0, closeFunc |-> "none"]

\* sequences over S of length lo..hi
SeqsOf(S, lo, hi) == UNION { [1..n -> S] : n \in lo..hi }

\* flags Create passes to os.OpenFile
CreateFlags == {"O_RDWR", "O_CREATE"}

\* the *File Create returns
NewFile(o, tempname, filename) ==
    [state |-> "live", name |-> tempname, origName |-> filename, open |-> TRUE,
     ino |-> o.ino, off |-> 0, closeFunc |-> "closeUncommitted"]

RECURSIVE CreateLoop(_, _, _, _, _, _)
\* the for loop of Create from the given counter; reads[counter + 1] is what
\* time.Now().UnixNano() returns in that iteration
CreateLoop(w, filename, ino, reads, fault, counter) ==
    IF counter >= Len(reads)
    THEN [done |-> FALSE, w |-> w, f |-> NoFile, err |-> "nil",
          existed |-> FALSE, counter |-> counter]
    ELSE LET t == makeTempName(filename, reads[counter + 1], counter) IN
         IF t.err # "nil"
         THEN [done |-> TRUE, w |-> w, f |-> [NoFile EXCEPT !.state = "failed"],
               err |-> t.err, existed |-> FALSE, counter |-> counter]
         ELSE LET o == OpenFile(w, t.tempname, CreateFlags, ino, fault) IN
              IF o.err # "nil"
              THEN IF IsExist(o.err)
                   THEN CreateLoop(w, filename, ino, reads, fault, counter + 1)
                   ELSE [done |-> TRUE, w |-> w,
                         f |-> [NoFile EXCEPT !.state = "failed"],
                         err |-> o.err, existed |-> FALSE, counter |-> counter]
              ELSE [done |-> TRUE, w |-> o.w,
                    f |-> NewFile(o, t.tempname, filename),
                    err |-> "nil", existed |-> o.existed, counter |-> counter]

\* Create(filename, perm): counter := 0, then the loop
DoCreate(w, filename, ino, reads, fault) ==
    CreateLoop(w, filename, ino, reads, fault, 0)

\* OrigName returns the original filename given to Create
OrigName(f) == f.origName

\* a closeUncommitted that forgets to remove the temporary file
closeUncommittedNoRemove(w, f, closeOk, removeOk) ==
    LET c == FileClose(f, closeOk)
    IN [w |-> w,
        f |-> [c.f EXCEPT !.closeFunc = "closeAgainError"],
        err |-> c.err,
        ops |-> << <<"Close", c.err>> >>]

\* a closeUncommitted that reports the removal's error before the close's
closeUncommittedRemoveErrFirst(w, f, closeOk, removeOk) ==
    LET c == FileClose(f, closeOk)
        r == Remove(w, f.name, removeOk)
    IN [w |-> r.w,
        f |-> [c.f EXCEPT !.closeFunc = "closeAgainError"],
        err |-> IF r.err # "nil" THEN r.err ELSE c.err,
        ops |-> << <<"Close", c.err>>, <<"Remove", r.err>> >>]

closeUncommitted(w, f, closeOk, removeOk) ==
    LET c == FileClose(f, closeOk)
        r == Remove(w, f.name, removeOk)
    IN [w |-> r.w,
        f |-> [c.f EXCEPT !.closeFunc = "closeAgainError"],
        err |-> IF c.err # "nil" THEN c.err ELSE r.err,
        ops |-> << <<"Close", c.err>>, <<"Remove", r.err>> >>]

closeAfterFailedRename(w, f, closeOk, removeOk) ==
    LET r == Remove(w, f.name, removeOk)
    IN [w |-> r.w,
        f |-> [f EXCEPT !.closeFunc = "closeAgainError"],
        err |-> r.err,
        ops |-> << <<"Remove", r.err>> >>]

\* a closeCommitted that lets only the first Close after Commit succeed
closeCommittedOnce(w, f, closeOk, removeOk) ==
    [w |-> w, f |-> [f EXCEPT !.closeFunc = "closeAgainError"],
     err |-> "nil", ops |-> <<>>]

closeCommitted(w, f, closeOk, removeOk) ==
    [w |-> w, f |-> f, err |-> "nil", ops |-> <<>>]

\* a closeAgainError that tries the removal again
closeAgainRemoves(w, f, closeOk, removeOk) ==
    LET r == Remove(w, f.name, removeOk)
    IN [w |-> r.w, f |-> f, err |-> "ErrInvalid", ops |-> << <<"Remove", r.err>> >>]

closeAgainError(w, f, closeOk, removeOk) ==
    [w |-> w, f |-> f, err |-> "ErrInvalid", ops |-> <<>>]

\* (*File).Close: return f.closeFunc(f)
DoClose(w, f, closeOk, removeOk) ==
    CASE f.closeFunc = "closeUncommitted" -> closeUncommitted(w, f, closeOk, removeOk)
      [] f.closeFunc = "closeAfterFailedRename" ->
            closeAfterFailedRename(w, f, closeOk, removeOk)
      [] f.closeFunc = "closeCommitted" -> closeCommitted(w, f, closeOk, removeOk)
      [] f.closeFunc = "closeAgainError" -> closeAgainError(w, f, closeOk, removeOk)

\* a Commit that forgets to install closeAfterFailedRename
RenameFailedKeepsFunc(f) == f

\* Commit after its rename failed
RenameFailed(f) == [f EXCEPT !.closeFunc = "closeAfterFailedRename"]

\* a Commit that installs the wrong closeFunc after a successful rename
RenameDoneWrongFunc(f) == [f EXCEPT !.closeFunc = "closeAfterFailedRename"]

\* Commit after its rename succeeded
RenameDone(f) == [f EXCEPT !.closeFunc = "closeCommitted"]

\* a Commit that closes the file when its sync failed, as CloseEx did
SyncFailedCloses(f, closeOk) == FileClose(f, closeOk).f

\* Commit after its sync failed: "return err", the File is left alone
SyncFailed(f, closeOk) == f

\* a Commit that goes on to rename whatever File.Close returned
CloseFailedIgnored(c) == FALSE

\* Commit's test of what File.Close returned
CloseFailed(c) == c.err # "nil"

\* (*File).Commit
DoCommit(w, f, syncOk, closeOk, renameOk) ==
    LET s == FileSync(f, syncOk) IN
    IF s # "nil"
    THEN [w |-> w, f |-> SyncFailed(f, closeOk), err |-> s,
          ops |-> << <<"Sync", s>> >>]
    ELSE LET c == FileClose(f, closeOk) IN
         IF CloseFailed(c)
         THEN [w |-> w, f |-> c.f, err |-> c.err,
               ops |-> << <<"Sync", s>>, <<"Close", c.err>> >>]
         ELSE LET r == Rename(w, c.f.name, c.f.origName, renameOk) IN
              IF r.err # "nil"
              THEN [w |-> w, f |-> RenameFailed(c.f), err |-> r.err,
                    ops |-> << <<"Sync", s>>, <<"Close", c.err>>,
                               <<"Rename", r.err>> >>]
              ELSE [w |-> r.w, f |-> RenameDone(c.f), err |-> "nil",
                    ops |-> << <<"Sync", s>>, <<"Close", c.err>>,
                               <<"Rename", r.err>> >>]

\* a WriteFile that does not compare n with len(data)
WriteFileBodyNoShortCheck(w, f, b, n, failed, syncOk, closeOk, renameOk) ==
    LET wr == FileWrite(w, f, b, n, failed) IN
    IF wr.err # "nil"
    THEN [w |-> wr.w, f |-> wr.f, err |-> wr.err, n |-> wr.n,
          ops |-> << <<"Write", wr.err>> >>, committing |-> FALSE]
    ELSE LET c == DoCommit(wr.w, wr.f, syncOk, closeOk, renameOk) IN
         [w |-> c.w, f |-> c.f, err |-> c.err, n |-> wr.n,
          ops |-> << <<"Write", wr.err>> >> \o c.ops, committing |-> TRUE]

\* the body of WriteFile after a successful Create, up to its return statement
WriteFileBody(w, f, b, n, failed, syncOk, closeOk, renameOk) ==
    LET wr == FileWrite(w, f, b, n, failed) IN
    IF wr.err # "nil"
    THEN [w |-> wr.w, f |-> wr.f, err |-> wr.err, n |-> wr.n,
          ops |-> << <<"Write", wr.err>> >>, committing |-> FALSE]
    ELSE IF wr.n < Len(b)
    THEN [w |-> wr.w, f |-> wr.f, err |-> "ErrShortWrite", n |-> wr.n,
          ops |-> << <<"Write", wr.err>> >>, committing |-> FALSE]
    ELSE LET c == DoCommit(wr.w, wr.f, syncOk, closeOk, renameOk) IN
         [w |-> c.w, f |-> c.f, err |-> c.err, n |-> wr.n,
          ops |-> << <<"Write", wr.err>> >> \o c.ops, committing |-> TRUE]

\* WriteFile(filename, data, perm), with its deferred f.Close()
DoWriteFile(w, filename, b, ino, reads, fault, n, failed, syncOk, closeOk, renameOk, removeOk) ==
    LET c == DoCreate(w, filename, ino, reads, fault) IN
    IF ~c.done \/ c.err # "nil"
    THEN [done |-> c.done, w |-> c.w, f |-> c.f, err |-> c.err, n |-> 0,
          ops |-> <<>>, committing |-> FALSE, existed |-> c.existed]
    ELSE LET body == WriteFileBody(c.w, c.f, b, n, failed,
                                   syncOk, closeOk, renameOk)
             d == DoClose(body.w, body.f, closeOk, removeOk)
         IN [done |-> TRUE, w |-> d.w, f |-> [d.f EXCEPT !.state = "returned"],
             err |-> body.err, n |-> body.n, ops |-> body.ops \o d.ops,
             committing |-> body.committing, existed |-> c.existed]

----------------------------------------------------------------------------
(* The CloseEx revision (safefile.go).  Its definitions carry the suffix 1 *)
(* where the Commit revision has a function of the same name.              *)

\* Create of the CloseEx revision: same loop, the File has no closeFunc
DoCreate1(w, filename, ino, reads, fault) ==
    LET c == DoCreate(w, filename, ino, reads, fault) IN
    [c EXCEPT !.f.closeFunc = "none"]

\* a CloseEx whose error paths leave the temporary file alone
RemoveOnErrorSkipped(w, f, deleteOnError, removeOk) == [w |-> w, ops |-> <<>>]

\* the "if deleteOnError { os.Remove(f.Name()) }" of CloseEx's error paths
RemoveOnError(w, f, deleteOnError, removeOk) ==
    IF deleteOnError
    THEN LET r == Remove(w, f.name, removeOk) IN
         [w |-> r.w, ops |-> << <<"Remove", r.err>> >>]
    ELSE [w |-> w, ops |-> <<>>]

\* (*File).CloseEx(deleteOnError)
DoCloseEx(w, f, deleteOnError, syncOk, closeOk, renameOk, removeOk) ==
    LET s == FileSync(f, syncOk) IN
    IF s # "nil"
    THEN LET c == FileClose(f, closeOk)
             d == RemoveOnError(w, c.f, deleteOnError, removeOk)
         IN [w |-> d.w, f |-> c.f, err |-> s,
             ops |-> << <<"Sync", s>>, <<"Close", c.err>> >> \o d.ops]
    ELSE LET c == FileClose(f, closeOk) IN
         IF c.err # "nil"
         THEN LET d == RemoveOnError(w, c.f, deleteOnError, removeOk) IN
              [w |-> d.w, f |-> c.f, err |-> c.err,
               ops |-> << <<"Sync", s>>, <<"Close", c.err>> >> \o d.ops]
         ELSE LET r == Rename(w, c.f.name, c.f.origName, renameOk) IN
              IF r.err # "nil"
              THEN LET d == RemoveOnError(w, c.f, deleteOnError, removeOk) IN
                   [w |-> d.w, f |-> c.f, err |-> r.err,
                    ops |-> << <<"Sync", s>>, <<"Close", c.err>>,
                               <<"Rename", r.err>> >> \o d.ops]
              ELSE [w |-> r.w, f |-> c.f, err |-> "nil",
                    ops |-> << <<"Sync", s>>, <<"Close", c.err>>,
                               <<"Rename", r.err>> >>]

\* (*File).Close of the CloseEx revision: CloseEx(true)
DoClose1(w, f, syncOk, closeOk, renameOk, removeOk) ==
    DoCloseEx(w, f, TRUE, syncOk, closeOk, renameOk, removeOk)

\* WriteFile of the CloseEx revision
DoWriteFile1(w, filename, b, ino, reads, fault, n, failed, syncOk, closeOk, renameOk, removeOk) ==
    LET c == DoCreate1(w, filename, ino, reads, fault) IN
    IF ~c.done \/ c.err # "nil"
    THEN [done |-> c.done, w |-> c.w, f |-> c.f, err |-> c.err, n |-> 0,
          ops |-> <<>>, existed |-> c.existed]
    ELSE LET wr == FileWrite(c.w, c.f, b, n, failed)
             d == DoClose1(wr.w, wr.f, syncOk, closeOk, renameOk, removeOk)
         IN [done |-> TRUE, w |-> d.w, f |-> [d.f EXCEPT !.state = "returned"],
             err |-> IF wr.err # "nil" THEN wr.err
                     ELSE IF wr.n < Len(b) THEN "ErrShortWrite"
                     ELSE d.err,
             n |-> wr.n, ops |-> << <<"Write", wr.err>> >> \o d.ops,
             existed |-> c.existed]

----------------------------------------------------------------------------
(* State machine. *)

World == [fs |-> fs, data |-> data]

NoRet == [op |-> "none", err |-> "nil", n |-> 0, from |-> "none"]

NoHist == [existed |-> FALSE, commitCalled |-> FALSE, asked |-> 0, commitOrder |-> 0]

\* the rank a commit succeeding now gets among the successful commits so far
NextCommitOrder == 1 + Cardinality({ h \in Handles : hist[h].commitOrder > 0 })

Absent == [exists |-> FALSE, content |-> <<>>]

Init ==
    /\ \E S \in SUBSET InitialPaths : fs = [p \in S |-> InitialInode(p)]
    /\ data = [i \in { InitialInode(p) : p \in DOMAIN fs } |-> OldData]
    /\ file = [h \in Handles |-> NoFile]
    /\ ret = [h \in Handles |-> NoRet]
    /\ ops = [h \in Handles |-> <<>>]
    /\ written = [h \in Handles |-> <<>>]
    /\ before = [h \in Handles |-> Absent]
    /\ hist = [h \in Handles |-> NoHist]

\* what time.Now().UnixNano() returns in the iterations of one Create call: the
\* clock does not run backwards within a call, and may stand still
ClockReads ==
    { r \in [1..MaxAttempts -> 0..MaxTime] :
        \A i \in 1..(MaxAttempts - 1) : r[i] <= r[i + 1] }

\* what os.OpenFile may fail with besides EEXIST, when primitives may fail
OpenFaults(oks) == IF FALSE \in oks THEN {"nil", "EACCES"} ELSE {"nil"}

Create(h, names, oks) ==
    /\ file[h].state = "none"
    /\ \E filename \in names, reads \in ClockReads, fault \in OpenFaults(oks) :
       \E r \in {DoCreate(World, filename, h, reads, fault)} :
          /\ r.done
          /\ fs' = r.w.fs
          /\ data' = r.w.data
          /\ file' = [file EXCEPT ![h] = r.f]
          /\ ret' = [ret EXCEPT ![h] =
                        [op |-> "Create", err |-> r.err, n |-> 0, from |-> "none"]]
          /\ ops' = [ops EXCEPT ![h] = <<>>]
          /\ before' = [before EXCEPT ![h] = ReadFile(World, filename)]
          /\ hist' = [hist EXCEPT ![h].existed = r.existed]
          /\ UNCHANGED written

Write(h, oks, bytes) ==
    /\ file[h].state = "live"
    /\ \E b \in SeqsOf(bytes, 1, MaxFileLen) :
          /\ Len(written[h]) + Len(b) <= MaxFileLen
          /\ \E n \in 0..Len(b), ok \in oks :
                /\ ok <=> n = Len(b)
                /\ \E failed \in (IF ok THEN {FALSE} ELSE BOOLEAN) :
                   \E r \in {FileWrite(World, file[h], b, n, failed)} :
                      /\ fs' = r.w.fs
                      /\ data' = r.w.data
                      /\ file' = [file EXCEPT ![h] = r.f]
                      /\ ret' = [ret EXCEPT ![h] =
                                    [op |-> "Write", err |-> r.err, n |-> r.n,
                                     from |-> file[h].closeFunc]]
                      /\ ops' = [ops EXCEPT ![h] = << <<"Write", r.err>> >>]
                      /\ written' = [written EXCEPT ![h] = @ \o SubSeq(b, 1, r.n)]
                      /\ UNCHANGED <<before, hist>>

Commit(h, oks) ==
    /\ file[h].state = "live"
    /\ \E syncOk \in oks, closeOk \in oks, renameOk \in oks :
       \E r \in {DoCommit(World, file[h], syncOk, closeOk, renameOk)} :
          /\ fs' = r.w.fs
          /\ data' = r.w.data
          /\ file' = [file EXCEPT ![h] = r.f]
          /\ ret' = [ret EXCEPT ![h] =
                        [op |-> "Commit", err |-> r.err, n |-> 0,
                         from |-> file[h].closeFunc]]
          /\ ops' = [ops EXCEPT ![h] = r.ops]
          /\ hist' = [hist EXCEPT ![h].commitCalled = TRUE,
                                  ![h].commitOrder =
                                      IF r.err = "nil" THEN NextCommitOrder ELSE @]
          /\ UNCHANGED <<written, before>>

Close(h, oks) ==
    /\ file[h].state = "live"
    /\ \E closeOk \in oks, removeOk \in oks :
       \E r \in {DoClose(World, file[h], closeOk, removeOk)} :
          /\ fs' = r.w.fs
          /\ data' = r.w.data
          /\ file' = [file EXCEPT ![h] = r.f]
          /\ ret' = [ret EXCEPT ![h] =
                        [op |-> "Close", err |-> r.err, n |-> 0,
                         from |-> file[h].closeFunc]]
          /\ ops' = [ops EXCEPT ![h] = r.ops]
          /\ UNCHANGED <<written, before, hist>>

WriteFile(h, names, oks) ==
    /\ file[h].state = "none"
    /\ \E filename \in names, reads \in ClockReads, fault \in OpenFaults(oks),
          b \in SeqsOf(Bytes, 0, MaxFileLen) :
       \E n \in 0..Len(b), ok \in oks, syncOk \in oks,
          closeOk \in oks, renameOk \in oks, removeOk \in oks :
          /\ ok <=> n = Len(b)
          /\ \E failed \in (IF ok THEN {FALSE} ELSE BOOLEAN) :
             \E r \in {DoWriteFile(World, filename, b, h, reads, fault, n, failed,
                                   syncOk, closeOk, renameOk, removeOk)} :
                /\ r.done
                /\ fs' = r.w.fs
                /\ data' = r.w.data
                /\ file' = [file EXCEPT ![h] = r.f]
                /\ ret' = [ret EXCEPT ![h] =
                              [op |-> "WriteFile", err |-> r.err, n |-> r.n,
                               from |-> "none"]]
                /\ ops' = [ops EXCEPT ![h] = r.ops]
                /\ written' = [written EXCEPT ![h] = SubSeq(b, 1, r.n)]
                /\ before' = [before EXCEPT ![h] = ReadFile(World, filename)]
                /\ hist' = [hist EXCEPT ![h] = [existed |-> r.existed,
                                                commitCalled |-> r.committing,
                                                asked |-> Len(b),
                                                commitOrder |->
                                                    IF r.err = "nil"
                                                    THEN NextCommitOrder ELSE 0]]

\* one public call on handle h; names are the file names callers pass and
\* oks the outcomes a primitive may have (TRUE: it works, FALSE: it fails)
Step(h, names, oks) ==
    \/ Create(h, names, oks)
    \/ Write(h, oks, Bytes)
    \/ Commit(h, oks)
    \/ Close(h, oks)
    \/ WriteFile(h, names, oks)

\* one SafeFile, any file name, every primitive may fail
Next == Step(1, Filenames, BOOLEAN)

Spec == Init /\ [][Next]_vars

\* SafeFiles of several callers (or processes) for the same destination "a",
\* with primitives that work; handle h writes bytes of value h
NextMulti ==
    \E h \in Handles :
        \/ Create(h, {<<"a">>}, {TRUE})
        \/ Write(h, {TRUE}, {h})
        \/ Commit(h, {TRUE})
        \/ Close(h, {TRUE})

SpecMulti == Init /\ [][NextMulti]_vars

----------------------------------------------------------------------------
(* State machine of the CloseEx revision. *)

Create1(h, names, oks) ==
    /\ file[h].state = "none"
    /\ \E filename \in names, reads \in ClockReads, fault \in OpenFaults(oks) :
       \E r \in {DoCreate1(World, filename, h, reads, fault)} :
          /\ r.done
          /\ fs' = r.w.fs
          /\ data' = r.w.data
          /\ file' = [file EXCEPT ![h] = r.f]
          /\ ret' = [ret EXCEPT ![h] =
                        [op |-> "Create", err |-> r.err, n |-> 0, from |-> "none"]]
          /\ ops' = [ops EXCEPT ![h] = <<>>]
          /\ before' = [before EXCEPT ![h] = ReadFile(World, filename)]
          /\ hist' = [hist EXCEPT ![h].existed = r.existed]
          /\ UNCHANGED written

CloseEx(h, oks) ==
    /\ file[h].state = "live"
    /\ \E deleteOnError \in BOOLEAN, syncOk \in oks, closeOk \in oks,
          renameOk \in oks, removeOk \in oks :
       \E r \in {DoCloseEx(World, file[h], deleteOnError,
                           syncOk, closeOk, renameOk, removeOk)} :
          /\ fs' = r.w.fs
          /\ data' = r.w.data
          /\ file' = [file EXCEPT ![h] = r.f]
          /\ ret' = [ret EXCEPT ![h] =
                        [op |-> IF deleteOnError THEN "CloseEx(true)"
                                ELSE "CloseEx(false)",
                         err |-> r.err, n |-> 0, from |-> "none"]]
          /\ ops' = [ops EXCEPT ![h] = r.ops]
          /\ hist' = [hist EXCEPT ![h].commitCalled = TRUE]
          /\ UNCHANGED <<written, before>>

Close1(h, oks) ==
    /\ file[h].state = "live"
    /\ \E syncOk \in oks, closeOk \in oks, renameOk \in oks, removeOk \in oks :
       \E r \in {DoClose1(World, file[h], syncOk, closeOk, renameOk, removeOk)} :
          /\ fs' = r.w.fs
          /\ data' = r.w.data
          /\ file' = [file EXCEPT ![h] = r.f]
          /\ ret' = [ret EXCEPT ![h] =
                        [op |-> "Close", err |-> r.err, n |-> 0, from |-> "none"]]
          /\ ops' = [ops EXCEPT ![h] = r.ops]
          /\ hist' = [hist EXCEPT ![h].commitCalled = TRUE]
          /\ UNCHANGED <<written, before>>

WriteFile1(h, names, oks) ==
    /\ file[h].state = "none"
    /\ \E filename \in names, reads \in ClockReads, fault \in OpenFaults(oks),
          b \in SeqsOf(Bytes, 0, MaxFileLen) :
       \E n \in 0..Len(b), ok \in oks, syncOk \in oks,
          closeOk \in oks, renameOk \in oks, removeOk \in oks :
          /\ ok <=> n = Len(b)
          /\ \E failed \in (IF ok THEN {FALSE} ELSE BOOLEAN) :
             \E r \in {DoWriteFile1(World, filename, b, h, reads, fault, n, failed,
                                    syncOk, closeOk, renameOk, removeOk)} :
                /\ r.done
                /\ fs' = r.w.fs
                /\ data' = r.w.data
                /\ file' = [file EXCEPT ![h] = r.f]
                /\ ret' = [ret EXCEPT ![h] =
                              [op |-> "WriteFile", err |-> r.err, n |-> r.n,
                               from |-> "none"]]
                /\ ops' = [ops EXCEPT ![h] = r.ops]
                /\ written' = [written EXCEPT ![h] = SubSeq(b, 1, r.n)]
                /\ before' = [before EXCEPT ![h] = ReadFile(World, filename)]
                /\ hist' = [hist EXCEPT ![h] = [existed |-> r.existed,
                                                commitCalled |-> TRUE,
                                                asked |-> Len(b),
                                                commitOrder |-> 0]]

Step1(h, names, oks) ==
    \/ Create1(h, names, oks)
    \/ Write(h, oks, Bytes)
    \/ CloseEx(h, oks)
    \/ Close1(h, oks)
    \/ WriteFile1(h, names, oks)

\* one SafeFile of the CloseEx revision, every primitive may fail
NextCloseEx == Step1(1, Filenames, BOOLEAN)

SpecCloseEx == Init /\ [][NextCloseEx]_vars

----------------------------------------------------------------------------
(* What the claims speak of. *)

\* a *File was handed out for h (by Create, or inside WriteFile)
Created(h) == file[h].state \in {"live", "returned"}

\* what a reader of h's destination path sees now
Dest(h) == ReadFile(World, file[h].origName)

\* a file exists at h's temporary path
TempExists(h) == Exists(World, file[h].name)

\* a destination holding exactly the bytes written through h
WrittenFile(h) == [exists |-> TRUE, content |-> written[h]]

\* the os primitives named prim that the last call on h invoked
OpsOf(h, prim) == { i \in 1..Len(ops[h]) : ops[h][i][1] = prim }

----------------------------------------------------------------------------
(* Claims. *)

\* C1: Atomicity. In every reachable state of one SafeFile (any Create,
\* Write, Commit, Close calls, any of sync, close, rename, remove failing) the
\* destination reads either exactly as it did before Create (absent if it did
\* not exist) or as exactly the complete sequence of bytes written to the
\* SafeFile; and it differs from its old content only once a Commit succeeded.
C1_Atomicity ==
    \A h \in Handles :
        Created(h) =>
            /\ Dest(h) = before[h] \/ Dest(h) = WrittenFile(h)
            /\ Dest(h) # before[h] => file[h].closeFunc = "closeCommitted"

\* C1 witness: an existing destination replaced by two written bytes, after a
\* Commit that succeeded.
C1_Witness ==
    /\ ret[1].op = "Commit" /\ ret[1].err = "nil"
    /\ before[1] = [exists |-> TRUE, content |-> OldData]
    /\ Len(written[1]) = 2
    /\ Dest(1) = WrittenFile(1)

\* C2 (as claimed): whenever Commit returns an error, the destination holds
\* the content it held before Create and the temporary file is still on disk.
C2_Original ==
    \A h \in Handles :
        (ret[h].op = "Commit" /\ ret[h].err # "nil") =>
            /\ Dest(h) = before[h]
            /\ TempExists(h)

\* C3: when Commit returns success, the destination contains exactly the
\* bytes of all Write calls in the order issued, no file exists at the temp
\* path, and the state is Committed.
C3_CommitSuccess ==
    \A h \in Handles :
        (ret[h].op = "Commit" /\ ret[h].err = "nil") =>
            /\ Dest(h) = WrittenFile(h)
            /\ ~TempExists(h)
            /\ file[h].closeFunc = "closeCommitted"

\* C3 witness: a successful Commit after the handle wrote the bytes 1, 2 in
\* that order, creating a destination that did not exist.
C3_Witness ==
    /\ ret[1].op = "Commit" /\ ret[1].err = "nil"
    /\ written[1] = <<1, 2>>
    /\ ~before[1].exists

\* C4 (as claimed): no two live SafeFile handles refer to the same temp path,
\* and Create never returns a handle to a file that already existed at the
\* candidate path.
C4_Original ==
    /\ \A h1, h2 \in Handles :
          (h1 # h2 /\ file[h1].state = "live" /\ file[h2].state = "live"
             /\ file[h1].closeFunc = "closeUncommitted"
             /\ file[h2].closeFunc = "closeUncommitted")
          => file[h1].name # file[h2].name
    /\ \A h \in Handles : Created(h) => ~hist[h].existed

\* C5 (as claimed): for a SafeFile on which Commit was never called, after
\* Close returns no file exists at the temp path and the destination is as it
\* was before Create.
C5_Original ==
    \A h \in Handles :
        (ret[h].op = "Close" /\ ~hist[h].commitCalled) =>
            /\ ~TempExists(h)
            /\ Dest(h) = before[h]

\* C5 (amended): for a SafeFile on which Commit was never called, after Close
\* returns the destination is as it was before Create, and no file exists at
\* the temp path unless Close returned an error; the first Close leaves the
\* temp file on disk exactly when its removal failed.
C5_AbandonCleanup ==
    \A h \in Handles :
        (ret[h].op = "Close" /\ ~hist[h].commitCalled) =>
            /\ Dest(h) = before[h]
            /\ ret[h].err = "nil" => ~TempExists(h)
            /\ ret[h].from = "closeUncommitted" =>
                  (TempExists(h) <=>
                     \E i \in OpsOf(h, "Remove") : ops[h][i][2] # "nil")

\* C5 witness: a Close that succeeded on a never-committed handle that had
\* written a byte, next to an existing destination.
C5_Witness ==
    /\ ret[1].op = "Close" /\ ret[1].err = "nil" /\ ~hist[1].commitCalled
    /\ Len(written[1]) = 1
    /\ before[1].exists

\* C6 (as claimed): when WriteFile returns an error after the temp file was
\* created, the destination is unmodified and no temp file remains on disk
\* (a temp file may remain only when the cleanup's own removal failed).
C6_Original ==
    \A h \in Handles :
        (ret[h].op = "WriteFile" /\ ret[h].err # "nil" /\ Created(h)) =>
            /\ Dest(h) = before[h]
            /\ TempExists(h) =>
                  \E i \in OpsOf(h, "Remove") : ops[h][i][2] # "nil"

\* C7 (as claimed): a Commit on a handle whose Commit already succeeded
\* returns the distinct already-committed error, attempts no rename and
\* leaves the destination holding the committed content.
C7_Original ==
    \A h \in Handles :
        (ret[h].op = "Commit" /\ ret[h].from = "closeCommitted") =>
            /\ ret[h].err = "ErrAlreadyCommitted"
            /\ OpsOf(h, "Rename") = {}
            /\ Dest(h) = WrittenFile(h)

\* C8: Close after a successful Commit is a no-op: it returns success,
\* invokes no close, remove or rename, changes neither the directory, nor any
\* file content, nor the handle, leaves the destination holding the committed
\* content with no temp file, and can be repeated with the same result.
C8_CloseAfterCommitNoop ==
    /\ [](\A h \in Handles :
            (ret[h].op = "Close" /\ ret[h].from = "closeCommitted") =>
                /\ ret[h].err = "nil"
                /\ ops[h] = <<>>
                /\ file[h].closeFunc = "closeCommitted"
                /\ Dest(h) = WrittenFile(h)
                /\ ~TempExists(h))
    /\ [][\A h \in Handles :
            (file[h].closeFunc = "closeCommitted" /\ ret'[h].op = "Close") =>
                (fs' = fs /\ data' = data /\ file' = file)]_vars

\* C8 witness: a Close that followed a successful Commit of one written byte
\* over an existing destination.
C8_Witness ==
    /\ ret[1].op = "Close" /\ ret[1].from = "closeCommitted"
    /\ Len(written[1]) = 1
    /\ before[1].exists

C10_Original ==
    \A h \in Handles :
        (ret[h].op = "Commit" /\ ret[h].err # "nil"
           /\ ret[h].from = "closeUncommitted" /\ OpsOf(h, "Close") # {}) =>
            /\ file[h].open
            /\ TempExists(h)

\* the last call on h invoked the os primitive prim and it succeeded
OpOk(h, prim) == \E i \in OpsOf(h, prim) : ops[h][i][2] = "nil"

\* C11: WriteFile returns success if and only if creation, a full write of
\* the buffer and Commit (sync, close, rename) all succeeded, and the
\* destination then holds the buffer; when the write reports no error but
\* fewer bytes than the buffer length, WriteFile returns the ShortWrite error
\* and never attempts the rename.
C11_WriteFileResult ==
    \A h \in Handles :
        ret[h].op = "WriteFile" =>
            /\ ret[h].err = "nil" <=>
                  /\ Created(h)
                  /\ OpOk(h, "Write") /\ ret[h].n = hist[h].asked
                  /\ OpOk(h, "Sync") /\ OpOk(h, "Close") /\ OpOk(h, "Rename")
            /\ ret[h].err = "nil" =>
                  /\ Len(written[h]) = hist[h].asked
                  /\ Dest(h) = WrittenFile(h)
            /\ (Created(h) /\ OpOk(h, "Write") /\ ret[h].n < hist[h].asked) =>
                  /\ ret[h].err = "ErrShortWrite"
                  /\ OpsOf(h, "Rename") = {}
                  /\ Dest(h) = before[h]

\* C11 witness: a WriteFile of two bytes over an existing destination whose
\* write reported one byte and no error, returning the ShortWrite error.
C11_Witness ==
    /\ ret[1].op = "WriteFile" /\ ret[1].err = "ErrShortWrite"
    /\ hist[1].asked = 2 /\ ret[1].n = 1
    /\ OpOk(1, "Write")
    /\ before[1].exists

\* h's Commit has succeeded
Committed(h) == Created(h) /\ file[h].closeFunc = "closeCommitted"

\* the two handles hold the same temporary file
SharedTemp == Created(1) /\ Created(2) /\ file[1].ino = file[2].ino

\* C12: two SafeFiles for the same destination, no lock: once both Commits
\* have succeeded the destination holds the complete content of the writer
\* whose rename happened last; and in every state of such an interleaving
\* (the two never hold the same temp file) the destination reads as it did
\* when a handle was created or as the complete content of a committed
\* writer, never as a mixture.
C12_LastRenameWins ==
    /\ (Committed(1) /\ Committed(2)) =>
          /\ ~SharedTemp
          /\ \A h \in Handles :
                hist[h].commitOrder = 2 => Dest(h) = WrittenFile(h)
          /\ \E h \in Handles : hist[h].commitOrder = 2
    /\ ~SharedTemp =>
          \A h \in Handles :
             Created(h) =>
                \/ \E g \in Handles : Created(g) /\ Dest(h) = before[g]
                \/ \E g \in Handles : Committed(g) /\ Dest(h) = WrittenFile(g)

\* C12 witness: both Commits succeeded, handle 1 wrote <<1, 1>>, handle 2
\* wrote <<2>> and renamed last, both created before either committed (in
\* different clock ticks), and the destination holds <<2>>.
C12_Witness ==
    /\ Committed(1) /\ Committed(2)
    /\ written[1] = <<1, 1>> /\ written[2] = <<2>>
    /\ hist[2].commitOrder = 2
    /\ ~before[1].exists /\ ~before[2].exists
    /\ Dest(1).content = <<2>>

\* the calls of the CloseEx revision that delete on error
DeletingCloses == {"CloseEx(true)", "Close"}

\* the last call on h was a CloseEx (or Close) that returned an error
CloseExFailed(h) ==
    /\ ret[h].op \in DeletingCloses \cup {"CloseEx(false)"}
    /\ ret[h].err # "nil"

CommitSteps == <<"Sync", "Close", "Rename">>

\* C14: the primitives a Commit call invokes are the first one, two or three
\* of sync, close, rename in that order, each but the last having succeeded;
\* and in every call (WriteFile's too) a rename is preceded by a sync and a
\* close of the same handle that both succeeded.
C14_StepOrder ==
    \A h \in Handles :
        /\ ret[h].op = "Commit" =>
              /\ Len(ops[h]) \in 1..3
              /\ \A i \in 1..Len(ops[h]) : ops[h][i][1] = CommitSteps[i]
              /\ \A i \in 1..(Len(ops[h]) - 1) : ops[h][i][2] = "nil"
        /\ \A i \in OpsOf(h, "Rename") :
              \E j \in 1..(i - 1), k \in 1..(i - 1) :
                 /\ j < k
                 /\ ops[h][j] = <<"Sync", "nil">>
                 /\ ops[h][k] = <<"Close", "nil">>

\* C14 witness: a Commit whose close failed after a sync that succeeded, on a
\* handle that wrote a byte: it stopped there.
C14_Witness ==
    /\ ret[1].op = "Commit"
    /\ ops[1] = << <<"Sync", "nil">>, <<"Close", "EIO">> >>
    /\ Len(written[1]) = 1

\* the last call on h was a Commit whose sync of the open temp file failed
SyncFailure(h) == ret[h].op = "Commit" /\ ops[h] = << <<"Sync", "EIO">> >>

\* C15: a Commit whose sync fails returns that error and changes neither the
\* directory, nor any file content, nor the handle: the state is still Open,
\* the handle open, the temp file on disk; a Write is then accepted, a Close
\* whose primitives work removes the temp file, and a Commit whose primitives
\* work reaches Committed (when the destination name can be renamed to).
C15_SyncFailure ==
    /\ [](\A h \in Handles :
            SyncFailure(h) =>
                /\ ret[h].err = "EIO"
                /\ file[h].closeFunc = "closeUncommitted"
                /\ file[h].open
                /\ TempExists(h)
                /\ FileWrite(World, file[h], <<1>>, 1, FALSE).err = "nil"
                /\ ~Exists(DoClose(World, file[h], TRUE, TRUE).w, file[h].name)
                /\ Resolvable(file[h].origName) =>
                      LET c == DoCommit(World, file[h], TRUE, TRUE, TRUE) IN
                      /\ c.err = "nil"
                      /\ c.f.closeFunc = "closeCommitted")
    /\ [][\A h \in Handles :
            (file[h].state = "live" /\ SyncFailure(h)') =>
                (fs' = fs /\ data' = data /\ file' = file)]_vars

\* C15 witness: a Commit whose sync failed on a handle that has written a
\* byte, for a destination that exists and can be renamed to.
C15_Witness ==
    /\ SyncFailure(1)
    /\ Len(written[1]) = 1
    /\ before[1].exists
    /\ Resolvable(file[1].origName)

\* C16 (as claimed): across Commit and Close calls the close primitive of a
\* handle is invoked at most once: no call invokes it twice, and none invokes
\* it on a handle that an earlier call has closed (such a close returns
\* ErrClosed).
C16_Original ==
    \A h \in Handles :
        ret[h].op \in {"Commit", "Close"} =>
            /\ Cardinality(OpsOf(h, "Close")) <= 1
            /\ \A i \in OpsOf(h, "Close") : ops[h][i][2] # "ErrClosed"

\* the closeFunc values of the terminal states Committed and Abandoned
Terminal == {"closeCommitted", "closeAgainError"}

\* C17 (as claimed): a Commit or Close on a SafeFile that is Committed or
\* Abandoned leaves its state as it was and invokes no primitive (no sync,
\* close, rename or remove); a Commit after Abandon leaves the destination
\* as it was before Create.
C17_Original ==
    \A h \in Handles :
        (ret[h].op \in {"Commit", "Close"} /\ ret[h].from \in Terminal) =>
            /\ file[h].closeFunc = ret[h].from
            /\ ops[h] = <<>>
            /\ ret[h].from = "closeAgainError" /\ hist[h].commitOrder = 0 =>
                  Dest(h) = before[h]

\* the destination paths the claims call invalid
InvalidPath(filename) ==
    filename = <<>> \/ filename[Len(filename)] = Separator

\* C18 (as claimed): Create hands out no handle for an invalid destination
\* path (empty, or ending in a separator), and a Create that returns an error
\* hands out no handle and leaves no file behind.
C18_Original ==
    \A h \in Handles :
        /\ Created(h) => ~InvalidPath(OrigName(file[h]))
        /\ (ret[h].op = "Create" /\ ret[h].err # "nil") =>
              /\ ~Created(h)
              /\ DOMAIN fs \subseteq InitialPaths

\* C19: a Close in the Open state invokes the handle's close and then the
\* removal of the temp file, whatever the close returned, and returns the
\* close's error if it failed and the removal's result otherwise.
C19_CloseBoth ==
    \A h \in Handles :
        (ret[h].op = "Close" /\ ret[h].from = "closeUncommitted") =>
            /\ Len(ops[h]) = 2
            /\ ops[h][1][1] = "Close" /\ ops[h][2][1] = "Remove"
            /\ ret[h].err = IF ops[h][1][2] # "nil" THEN ops[h][1][2]
                            ELSE ops[h][2][2]

\* C19 witness: a Close in the Open state whose close failed and whose
\* removal succeeded: it returned the close error and the temp file is gone.
C19_Witness ==
    /\ ret[1].op = "Close" /\ ret[1].from = "closeUncommitted"
    /\ ops[1] = << <<"Close", "EIO">>, <<"Remove", "nil">> >>
    /\ ret[1].err = "EIO"
    /\ Len(written[1]) = 1
    /\ ~TempExists(1)

\* C20: a Close from Open or FailedRename leaves the SafeFile Abandoned even
\* when its removal failed; a Close of an Abandoned SafeFile returns the
\* invalid error and invokes no primitive; and once Abandoned the SafeFile
\* stays Abandoned and a temp file that is still on disk stays on disk.
C20_AbandonedKeepsTemp ==
    /\ [](\A h \in Handles :
            /\ (ret[h].op = "Close"
                  /\ ret[h].from \in {"closeUncommitted", "closeAfterFailedRename"})
               => file[h].closeFunc = "closeAgainError"
            /\ (ret[h].op = "Close" /\ ret[h].from = "closeAgainError") =>
                  /\ ret[h].err = "ErrInvalid"
                  /\ ops[h] = <<>>)
    /\ [][\A h \in Handles :
            file[h].closeFunc = "closeAgainError" =>
                /\ file'[h].closeFunc = "closeAgainError"
                /\ TempExists(h) => TempExists(h)']_vars

\* C20 witness: a second Close, after a first Close whose removal failed: it
\* returned the invalid error and the temp file is still on disk.
C20_Witness ==
    /\ ret[1].op = "Close" /\ ret[1].from = "closeAgainError"
    /\ ret[1].err = "ErrInvalid"
    /\ TempExists(1)
    /\ Len(written[1]) = 1

====
